---- MODULE Spec2Model ----
(***************************************************************************)
(* Model of the websocket server of src/websocket/server.cc: the server    *)
(* (listener, accept loop, task gate, connection registry, stop) and the   *)
(* per-connection machinery (handshake, read loop, response loop, close).  *)
(* Every action is one continuation of the code: it runs from one          *)
(* suspension point (accept, read, write, queue push/pop) to the next.     *)
(***************************************************************************)
EXTENDS Integers, Sequences, FiniteSets, TLC

(* ------------------------------ bounds --------------------------------- *)
\* connections the listener accepts during a run
MaxConn == 1
\* frames the peer sends on one connection
MaxFrames == 3
\* payloads the handler writes to its output on one connection
MaxPush == 2
\* capacity of _input_buffer and _output_buffer (PIPE_SIZE in the class)
QueueCap == 2

Conns == 1..MaxConn

\* subprotocol names a request may carry, and those the application registers
SubNames == {"", "echo"}
HandlerNames == {"echo"}

\* temporary_buffer<char>(0): the zero-length buffer; payloads are 1, 2, ...
EmptyBuf == 0

\* opcodes of valid frames; RESERVED stands for every other 4-bit value
DataOpcodes == {"CONTINUATION", "TEXT", "BINARY"}
ValidOpcodes == DataOpcodes \cup {"CLOSE", "PING", "PONG", "RESERVED"}

VARIABLES
    handlers,    \* server::_handlers (the registered subprotocol names)
    listening,   \* server::_listeners is non-empty
    acceptPc,    \* the accept loop: "none", "waiting", "ready", "stopped"
    aborted,     \* abort_accept() was called on the listener
    gateClosed,  \* _task_gate.close() was called
    gateCount,   \* tasks inside _task_gate
    stopPc,      \* server::stop: "idle", "gate", "forcing", "done"
    registry,    \* server::_connections
    nextId,      \* id of the next accepted connection
    atStop,      \* history: the registry when stop() was called
    conn,        \* per-connection state
    hdr          \* one call of send_data seen as a codec: its arguments, the
                 \* header it builds, and what a receiver reads from it

vars == <<handlers, listening, acceptPc, aborted, gateClosed, gateCount,
          stopPc, registry, nextId, atStop, conn, hdr>>

\* everything but the connections
srv == <<handlers, listening, acceptPc, aborted, gateClosed, gateCount,
         stopPc, registry, nextId, atStop, hdr>>

(* --------------------------- a connection ------------------------------ *)
\* the fields of server_connection, plus the position of its three tasks
NoConn ==
    [life     |-> "unborn",   \* "unborn", "live", "destroyed"
     rl       |-> "none",     \* read_loop: none, hs, read, push, close_send, loop_done, end
     rlFail   |-> FALSE,      \* read_loop resolved with an exception
     hd       |-> "none",     \* _handler(...): none, running, ok, failed
     rs       |-> "none",     \* response_loop: none, pop, send, end
     rsFail   |-> FALSE,      \* response_loop resolved with an exception
     done     |-> FALSE,      \* _done
     inq      |-> <<>>,       \* _input_buffer
     outq     |-> <<>>,       \* _output_buffer
     pend     |-> EmptyBuf,   \* the payload push_eventually is waiting to push
     inShut   |-> FALSE,      \* _fd.shutdown_input() was called
     outShut  |-> FALSE,      \* _fd.shutdown_output() was called
     rbClosed |-> FALSE,      \* _read_buf.close() was called
     wbClosed |-> FALSE,      \* _write_buf.close() was called
     wire     |-> <<>>,       \* frames send_data handed to _write_buf.write
     req      |-> "none",     \* outcome of read_http_upgrade_request
     sub      |-> "",         \* Sec-WebSocket-Protocol of the request
     bound    |-> FALSE,      \* _handler was assigned
     called   |-> FALSE,      \* history: _handler(_input, _output) was evaluated
     closeRecv|-> FALSE,      \* history: a valid CLOSE frame was decoded
     decoded  |-> 0,          \* history: frames decoded by read_one
     pushes   |-> 0,          \* history: payloads the handler wrote
     fc       |-> "none"]     \* close(true) called by stop: none, send, done

Frame(op, buf) == [op |-> op, buf |-> buf]

(* ------------------------ the frame header codec ------------------------ *)
\* payload lengths given to send_data: around each limit of its three cases
Lengths == {0, 1, 2, 124, 125, 126, 127, 128, 255, 256, 257,
            65534, 65535, 65536, 65537, 16777216}

\* enum opcodes
OpcodeValue(opcode) ==
    CASE opcode = "CONTINUATION" -> 0
      [] opcode = "TEXT"         -> 1
      [] opcode = "BINARY"       -> 2
      [] opcode = "CLOSE"        -> 8
      [] opcode = "PING"         -> 9
      [] opcode = "PONG"         -> 10

Opcodes == DataOpcodes \cup {"CLOSE", "PING", "PONG"}

\* v shifted right by k bytes
RECURSIVE ShiftRightBytes(_, _)
ShiftRightBytes(v, k) == IF k = 0 THEN v ELSE ShiftRightBytes(v \div 256, k - 1)

\* a write_be that stores the least significant byte first
write_le(n, v) == [i \in 1..n |-> ShiftRightBytes(v, i - 1) % 256]

\* write_be<uintN_t>(p, v) for N = 8 * n: the n bytes of v, the most
\* significant first (v is below 2^31 here, so the conversion of a size_t to
\* uint64_t keeps it, and the conversion to uint16_t is made by the caller)
write_be(n, v) == [i \in 1..n |-> ShiftRightBytes(v, n - i) % 256]

\* the header send_data builds for a buffer of `size` bytes
send_data_header(opcode, size) ==
    LET header0 == (128 + OpcodeValue(opcode)) % 256
    IN  IF 126 <= size /\ size <= 65535
        THEN <<header0, 126>> \o write_be(2, size % 65536)
        ELSE IF 65535 < size
        THEN <<header0, 127>> \o write_be(8, size)
        ELSE <<header0, size % 256>>

\* the big-endian number in the bytes s
RECURSIVE read_be(_)
read_be(s) ==
    IF s = <<>> THEN 0
    ELSE read_be(SubSeq(s, 1, Len(s) - 1)) * 256 + s[Len(s)]

\* what a receiver reads from a header: FIN and opcode in byte 0, MASK and
\* the 7-bit length in byte 1, the extended length after 126 or 127
parse_header(h) ==
    LET len7 == h[2] % 128
    IN  [fin    |-> h[1] \div 128,
         opcode |-> h[1] % 16,
         mask   |-> h[2] \div 128,
         size   |-> IF len7 = 126 THEN read_be(SubSeq(h, 3, 4))
                    ELSE IF len7 = 127 THEN read_be(SubSeq(h, 3, 10))
                    ELSE len7]

NoHeader == [stage |-> "none", opcode |-> "BINARY", size |-> 0,
             bytes |-> <<>>, parsed |-> <<>>]

\* every call of send_data the codec is checked on
CodecInit ==
    /\ handlers = {}
    /\ listening = FALSE
    /\ acceptPc = "none"
    /\ aborted = FALSE
    /\ gateClosed = FALSE
    /\ gateCount = 0
    /\ stopPc = "idle"
    /\ registry = {}
    /\ nextId = 1
    /\ atStop = {}
    /\ conn = [c \in Conns |-> NoConn]
    /\ \E opcode \in Opcodes, size \in Lengths :
          hdr = [NoHeader EXCEPT !.stage = "call", !.opcode = opcode,
                                 !.size = size]

\* send_data builds the header
EncodeHeader ==
    /\ hdr.stage = "call"
    /\ hdr' = [hdr EXCEPT !.stage = "sent",
                          !.bytes = send_data_header(hdr.opcode, hdr.size)]
    /\ UNCHANGED <<handlers, listening, acceptPc, aborted, gateClosed,
                   gateCount, stopPc, registry, nextId, atStop, conn>>

\* the peer reads the header
DecodeHeader ==
    /\ hdr.stage = "sent"
    /\ hdr' = [hdr EXCEPT !.stage = "received",
                          !.parsed = parse_header(hdr.bytes)]
    /\ UNCHANGED <<handlers, listening, acceptPc, aborted, gateClosed,
                   gateCount, stopPc, registry, nextId, atStop, conn>>

CodecNext == EncodeHeader \/ DecodeHeader

CodecSpec == CodecInit /\ [][CodecNext]_vars

Init ==
    /\ hdr = NoHeader
    /\ handlers = {}
    /\ listening = FALSE
    /\ acceptPc = "none"
    /\ aborted = FALSE
    /\ gateClosed = FALSE
    /\ gateCount = 0
    /\ stopPc = "idle"
    /\ registry = {}
    /\ nextId = 1
    /\ atStop = {}
    /\ conn = [c \in Conns |-> NoConn]


(* ------------------- operations of server_connection ------------------- *)
is_handler_registered(name) == name \in handlers

\* the constructor, which ends with on_new_connection(): the caller adds the
\* connection to the registry
on_new_connection(r) == [r EXCEPT !.life = "live"]

\* closing the handler's stream over a queue marks its end with a zero-length
\* buffer, when the queue has room for it; a consumer waiting in
\* pop_eventually is woken by it
QueueClose(q) == IF Len(q) < QueueCap THEN Append(q, EmptyBuf) ELSE q

\* send_data up to its suspension in _write_buf.write: the frame is handed to
\* the write buffer
send_data(r, opcode, buf) == [r EXCEPT !.wire = Append(@, Frame(opcode, buf))]

\* a close() that forgets to set _done
close_finally_not_done(r) ==
    [r EXCEPT !.inq = QueueClose(@),
              !.outq = QueueClose(@),
              !.outShut = TRUE]

\* the .finally of close(): _done, both queues closed, then shutdown_output
close_finally(r) ==
    [r EXCEPT !.done = TRUE,
              !.inq = QueueClose(@),
              !.outq = QueueClose(@),
              !.outShut = TRUE]

\* response_loop: the stop condition of do_until, then either
\* pop_eventually (suspended until RespPop) or the .finally
response_loop(r) ==
    IF r.done
    THEN [r EXCEPT !.rs = "end", !.wbClosed = TRUE]
    ELSE [r EXCEPT !.rs = "pop"]

\* a failed write or flush in the body of response_loop's do_until
response_loop_failed(r) ==
    [r EXCEPT !.rs = "end", !.rsFail = TRUE, !.wbClosed = TRUE]

\* a read loop that goes on reading whatever _done says
do_until_read_forever(r) == [r EXCEPT !.rl = "read"]

\* read_loop's do_until: the stop condition, then read_one's consume
do_until_read(r) ==
    IF r.done
    THEN [r EXCEPT !.rl = "loop_done"]
    ELSE [r EXCEPT !.rl = "read"]

\* read_one resolved with an exception: do_until stops with it
do_until_failed(r) == [r EXCEPT !.rl = "loop_done", !.rlFail = TRUE]

\* an exception reaches read_loop's .finally before the loops were started
read_loop_failed(r) ==
    [r EXCEPT !.rl = "end", !.rlFail = TRUE, !.rbClosed = TRUE]

\* the continuation of read_loop after read_http_upgrade_request resolved
\* without an exception: _handler is called, then do_until. A _handler that
\* was never assigned is an empty function object and the call throws.
read_loop_then(r) ==
    LET c == [r EXCEPT !.called = TRUE]
    IN  IF c.bound
        THEN do_until_read([c EXCEPT !.hd = "running"])
        ELSE read_loop_failed(c)

\* process(): read_loop() runs to the consume of the handshake,
\* response_loop() to its first pop_eventually
process(r) == response_loop([r EXCEPT !.rl = "hs"])

\* What the transport can deliver to a consume. Once the read side was shut
\* down (shutdown_input, or the close of _read_buf) a read ends with
\* end-of-stream; before that the peer may send anything, close, or the read
\* may fail with an exception.
HsKinds(r) ==
    IF r.inShut THEN {"eof"}
    ELSE {"eof", "readerror", "malformed", "noupgrade", "request"}

ReadResults(r) ==
    IF r.inShut \/ r.rbClosed THEN {"eof"}
    ELSE {"eof", "error"}
         \cup (IF r.decoded < MaxFrames THEN ValidOpcodes \cup {"invalid"} ELSE {})

\* read_http_upgrade_request followed by read_loop's continuation.
\* kind: what the http parser saw; sub: the requested subprotocol;
\* cok: sha1_base64 succeeded; wok: the reply was written and flushed
read_http_upgrade_request(r, kind, sub, cok, wok) ==
    IF kind = "eof"
    THEN read_loop_then([r EXCEPT !.req = "eof", !.done = TRUE])
    ELSE IF kind \in {"readerror", "malformed", "noupgrade"}
    THEN read_loop_failed([r EXCEPT !.req = kind])
    ELSE IF ~is_handler_registered(sub)
    THEN read_loop_failed([r EXCEPT !.req = "nosub", !.sub = sub])
    ELSE LET b == [r EXCEPT !.sub = sub, !.bound = TRUE]
         IN  IF ~cok THEN read_loop_failed([b EXCEPT !.req = "crypto"])
             ELSE IF ~wok THEN read_loop_failed([b EXCEPT !.req = "writefail"])
             ELSE read_loop_then([b EXCEPT !.req = "ok"])

\* a close() that sends the CLOSE frame whatever send_close says
close_always_sends(r, send_close) ==
    [send_data(r, "CLOSE", EmptyBuf) EXCEPT !.rl = "close_send"]

\* close(send_close) up to its first suspension
close(r, send_close) ==
    IF send_close
    THEN [send_data(r, "CLOSE", EmptyBuf) EXCEPT !.rl = "close_send"]
    ELSE do_until_read(close_finally(r))

\* the continuation of read_one after consume(_websocket_parser)
read_one(r, res) ==
    IF res = "error" THEN do_until_failed(r)
    ELSE IF res = "eof" THEN close(r, FALSE)
    ELSE LET d == [r EXCEPT !.decoded = @ + 1]
         IN  IF res \in DataOpcodes
             THEN IF Len(d.inq) < QueueCap
                  THEN do_until_read([d EXCEPT !.inq = Append(@, d.decoded)])
                  ELSE [d EXCEPT !.rl = "push", !.pend = d.decoded]
             ELSE IF res = "CLOSE"
             THEN close([d EXCEPT !.closeRecv = TRUE], TRUE)
             ELSE IF res \in {"PING", "PONG"}
             THEN do_until_read(d)
             ELSE close(d, TRUE)

\* push_eventually resumes when the handler made room
push_resumed(r) ==
    do_until_read([r EXCEPT !.inq = Append(@, r.pend),
                            !.pend = EmptyBuf])

\* a close() that runs its second half with .then: a failed write skips it
close_sent_then(r, ok) ==
    IF ok THEN do_until_read(close_finally(r))
    ELSE do_until_failed(r)

\* the write and flush of close(true)'s frame resolved: the .finally runs and
\* read_one resolves with the outcome of the write
close_sent(r, ok) ==
    IF ok THEN do_until_read(close_finally(r))
    ELSE do_until_failed(close_finally(r))

\* a .finally of read_loop that clears _done
read_loop_finally_clears_done(r) ==
    [r EXCEPT !.rl = "end",
              !.rlFail = r.rlFail \/ r.hd = "failed",
              !.rbClosed = TRUE,
              !.done = FALSE]

\* when_all_succeed(handler, do_until) resolved, then read_loop's .finally
read_loop_finally(r) ==
    [r EXCEPT !.rl = "end",
              !.rlFail = r.rlFail \/ r.hd = "failed",
              !.rbClosed = TRUE]


(* ------------------------------ the server ----------------------------- *)
Set(c, r) == conn' = [conn EXCEPT ![c] = r]

Live(c) == conn[c].life = "live"

\* register_handler(name, handler), called before listen
RegisterHandler(name) ==
    /\ ~listening
    /\ name \notin handlers
    /\ handlers' = handlers \cup {name}
    /\ UNCHANGED <<hdr, listening, acceptPc, aborted, gateClosed, gateCount, stopPc,
                   registry, nextId, atStop, conn>>

\* listen(addr): the listener, then accept(): the accept loop enters the
\* gate, unless the gate is closed (gate_closed_exception is swallowed)
Listen ==
    /\ ~listening
    /\ listening' = TRUE
    /\ IF gateClosed
       THEN UNCHANGED <<acceptPc, gateCount>>
       ELSE /\ acceptPc' = "waiting"
            /\ gateCount' = gateCount + 1
    /\ UNCHANGED <<hdr, handlers, aborted, gateClosed, stopPc, registry, nextId,
                   atStop, conn>>

\* listener.accept() resolves with a connection; its continuation is queued
AcceptArrive ==
    /\ acceptPc = "waiting"
    /\ ~aborted
    /\ nextId <= MaxConn
    /\ acceptPc' = "ready"
    /\ UNCHANGED <<hdr, handlers, listening, aborted, gateClosed, gateCount, stopPc,
                   registry, nextId, atStop, conn>>

\* the continuation of accept_one: the connection is constructed (and
\* registers itself); inside the gate process() starts, and the connection is
\* destroyed when process() resolves; with the gate closed the connection is
\* destroyed at once. The loop then accepts again.
AcceptOne ==
    /\ acceptPc = "ready"
    /\ acceptPc' = "waiting"
    /\ nextId' = nextId + 1
    /\ IF gateClosed
       THEN /\ conn' = [conn EXCEPT ![nextId] =
                           [on_new_connection(@) EXCEPT !.life = "destroyed"]]
            /\ UNCHANGED <<registry, gateCount>>
       ELSE /\ conn' = [conn EXCEPT ![nextId] = process(on_new_connection(@))]
            /\ registry' = registry \cup {nextId}
            /\ gateCount' = gateCount + 1
    /\ UNCHANGED <<hdr, handlers, listening, aborted, gateClosed, stopPc, atStop>>

\* listener.accept() fails with ECONNABORTED after abort_accept:
\* stop_iteration::yes, the accept loop leaves the gate
AcceptAborted ==
    /\ acceptPc = "waiting"
    /\ aborted
    /\ acceptPc' = "stopped"
    /\ gateCount' = gateCount - 1
    /\ UNCHANGED <<hdr, handlers, listening, aborted, gateClosed, stopPc, registry,
                   nextId, atStop, conn>>

\* listener.accept() fails with another error: it is logged, then the same
AcceptError ==
    /\ acceptPc = "waiting"
    /\ ~aborted
    /\ acceptPc' = "stopped"
    /\ gateCount' = gateCount - 1
    /\ UNCHANGED <<hdr, handlers, listening, aborted, gateClosed, stopPc, registry,
                   nextId, atStop, conn>>

\* stop() up to _task_gate.close(): abort_accept on the listeners,
\* shutdown_input on every registered connection, the gate starts closing
Stop ==
    /\ stopPc = "idle"
    /\ stopPc' = "gate"
    /\ aborted' = TRUE
    /\ gateClosed' = TRUE
    /\ atStop' = registry
    /\ conn' = [c \in Conns |->
                  IF c \in registry THEN [conn[c] EXCEPT !.inShut = TRUE]
                  ELSE conn[c]]
    /\ UNCHANGED <<hdr, handlers, listening, acceptPc, gateCount, registry, nextId>>

\* a gate whose close() resolves without waiting for the tasks inside it
GateClosedAtOnce == TRUE

\* _task_gate.close() resolves once every task has left the gate
GateClosed == gateCount = 0

\* the .finally of stop(): close(true) on every connection still registered
StopForce ==
    /\ stopPc = "gate"
    /\ GateClosed
    /\ conn' = [c \in Conns |->
                  IF c \in registry
                  THEN [send_data(conn[c], "CLOSE", EmptyBuf) EXCEPT !.fc = "send"]
                  ELSE conn[c]]
    /\ stopPc' = IF registry = {} THEN "done" ELSE "forcing"
    /\ UNCHANGED <<hdr, handlers, listening, acceptPc, aborted, gateClosed, gateCount,
                   registry, nextId, atStop>>

(* --------------------------- the connections --------------------------- *)
\* the handshake request (or EOF, or an error) arrives
Handshake(c) ==
    /\ Live(c)
    /\ conn[c].rl = "hs"
    /\ \E kind \in HsKinds(conn[c]), sub \in SubNames, cok \in BOOLEAN, wok \in BOOLEAN :
          Set(c, read_http_upgrade_request(conn[c], kind, sub, cok, wok))
    /\ UNCHANGED srv

\* _read_buf.consume(_websocket_parser) resolves in read_one
ReadOne(c) ==
    /\ Live(c)
    /\ conn[c].rl = "read"
    /\ \E res \in ReadResults(conn[c]) : Set(c, read_one(conn[c], res))
    /\ UNCHANGED srv

\* _input_buffer.push_eventually resumes
PushResume(c) ==
    /\ Live(c)
    /\ conn[c].rl = "push"
    /\ Len(conn[c].inq) < QueueCap
    /\ Set(c, push_resumed(conn[c]))
    /\ UNCHANGED srv

\* the write and flush of a CLOSE frame resolve, in read_one's close(true) or
\* in stop's
CloseSent(c) ==
    /\ Live(c)
    /\ \E ok \in BOOLEAN :
          \/ /\ conn[c].rl = "close_send"
             /\ Set(c, close_sent(conn[c], ok))
             /\ UNCHANGED stopPc
          \/ /\ conn[c].fc = "send"
             /\ Set(c, [close_finally(conn[c]) EXCEPT !.fc = "done"])
             /\ stopPc' = IF \A d \in registry \ {c} : conn[d].fc = "done"
                          THEN "done" ELSE stopPc
    /\ UNCHANGED <<hdr, handlers, listening, acceptPc, aborted, gateClosed, gateCount,
                   registry, nextId, atStop>>

\* the handler and do_until have both resolved
ReadLoopEnd(c) ==
    /\ Live(c)
    /\ conn[c].rl = "loop_done"
    /\ conn[c].hd \in {"ok", "failed"}
    /\ Set(c, read_loop_finally(conn[c]))
    /\ UNCHANGED srv

\* the handler reads a buffer from its input
HandlerPop(c) ==
    /\ Live(c)
    /\ conn[c].hd = "running"
    /\ conn[c].inq # <<>>
    /\ Set(c, [conn[c] EXCEPT !.inq = Tail(@)])
    /\ UNCHANGED srv

\* the handler writes a payload to its output (which close() has not closed),
\* suspended while _output_buffer is full
HandlerPush(c) ==
    /\ Live(c)
    /\ conn[c].hd = "running"
    /\ ~conn[c].done
    /\ conn[c].pushes < MaxPush
    /\ Len(conn[c].outq) < QueueCap
    /\ Set(c, [conn[c] EXCEPT !.outq = Append(@, conn[c].pushes + 1),
                              !.pushes = @ + 1])
    /\ UNCHANGED srv

\* the handler's future resolves
HandlerReturn(c) ==
    /\ Live(c)
    /\ conn[c].hd = "running"
    /\ Set(c, [conn[c] EXCEPT !.hd = "ok"])
    /\ UNCHANGED srv

\* the handler's future fails: handle_exception closes _read_buf, which ends
\* a read in progress with end-of-stream
HandlerFail(c) ==
    /\ Live(c)
    /\ conn[c].hd = "running"
    /\ Set(c, [conn[c] EXCEPT !.hd = "failed", !.rbClosed = TRUE])
    /\ UNCHANGED srv

\* a response loop that takes the newest buffer of the queue, not the oldest
RespPopNewest(c) ==
    /\ Live(c)
    /\ conn[c].rs = "pop"
    /\ conn[c].outq # <<>>
    /\ Set(c, [send_data(conn[c], "BINARY", conn[c].outq[Len(conn[c].outq)])
                 EXCEPT !.outq = SubSeq(@, 1, Len(@) - 1), !.rs = "send"])
    /\ UNCHANGED srv

\* pop_eventually resolves in response_loop: send_data(BINARY, buf)
RespPop(c) ==
    /\ Live(c)
    /\ conn[c].rs = "pop"
    /\ conn[c].outq # <<>>
    /\ Set(c, [send_data(conn[c], "BINARY", Head(conn[c].outq))
                 EXCEPT !.outq = Tail(@), !.rs = "send"])
    /\ UNCHANGED srv

\* the write and flush of response_loop's frame resolve
RespSent(c) ==
    /\ Live(c)
    /\ conn[c].rs = "send"
    /\ \E ok \in BOOLEAN :
          Set(c, IF ok THEN response_loop(conn[c]) ELSE response_loop_failed(conn[c]))
    /\ UNCHANGED srv

\* process() resolves (an exception is logged), the connection is destroyed,
\* its destructor erases it from the registry; the task leaves the gate
ProcessEnd(c) ==
    /\ Live(c)
    /\ conn[c].rl = "end"
    /\ conn[c].rs = "end"
    /\ Set(c, [conn[c] EXCEPT !.life = "destroyed"])
    /\ registry' = registry \ {c}
    /\ gateCount' = gateCount - 1
    /\ UNCHANGED <<hdr, handlers, listening, acceptPc, aborted, gateClosed, stopPc,
                   nextId, atStop>>

ConnStep(c) ==
    \/ Handshake(c)
    \/ ReadOne(c)
    \/ PushResume(c)
    \/ CloseSent(c)
    \/ ReadLoopEnd(c)
    \/ HandlerPop(c)
    \/ HandlerPush(c)
    \/ HandlerReturn(c)
    \/ HandlerFail(c)
    \/ RespPop(c)
    \/ RespSent(c)
    \/ ProcessEnd(c)

Next ==
    \/ \E name \in HandlerNames : RegisterHandler(name)
    \/ Listen
    \/ AcceptArrive
    \/ AcceptOne
    \/ AcceptAborted
    \/ AcceptError
    \/ Stop
    \/ StopForce
    \/ \E c \in Conns : ConnStep(c)

Spec == Init /\ [][Next]_vars


\* Scheduling: a queued continuation runs, and every transport operation
\* (accept after abort_accept, read, write, flush) resolves; a running handler
\* resolves. Nothing obliges the application to call listen or stop, a peer to
\* connect, or the handler to read, write or fail.
Fairness ==
    /\ WF_vars(AcceptOne)
    /\ WF_vars(AcceptAborted)
    /\ WF_vars(StopForce)
    /\ \A c \in Conns :
          /\ WF_vars(Handshake(c))
          /\ WF_vars(ReadOne(c))
          /\ WF_vars(PushResume(c))
          /\ WF_vars(CloseSent(c))
          /\ WF_vars(ReadLoopEnd(c))
          /\ WF_vars(HandlerReturn(c))
          /\ WF_vars(RespPop(c))
          /\ WF_vars(RespSent(c))
          /\ WF_vars(ProcessEnd(c))

FairSpec == Spec /\ Fairness

\* The same scheduling with a peer that may stay silent: a consume of
\* read_one that waits for the peer's next frame need not resolve.
SilentPeerFairness ==
    /\ WF_vars(AcceptOne)
    /\ WF_vars(AcceptAborted)
    /\ WF_vars(StopForce)
    /\ \A c \in Conns :
          /\ WF_vars(Handshake(c))
          /\ WF_vars(PushResume(c))
          /\ WF_vars(CloseSent(c))
          /\ WF_vars(ReadLoopEnd(c))
          /\ WF_vars(HandlerReturn(c))
          /\ WF_vars(RespPop(c))
          /\ WF_vars(RespSent(c))
          /\ WF_vars(ProcessEnd(c))

SilentPeerSpec == Spec /\ SilentPeerFairness

(* ------------------------------- claims -------------------------------- *)
HandshakeFailures == {"malformed", "noupgrade", "nosub", "crypto"}

NumClose(w) == Len(SelectSeq(w, LAMBDA f : f.op = "CLOSE"))

Payloads(q) == SelectSeq(q, LAMBDA x : x # EmptyBuf)

\* the payloads of the data frames handed to the transport, in wire order
WirePayloads(w) ==
    LET d == SelectSeq(w, LAMBDA f : f.op \in DataOpcodes /\ f.buf # EmptyBuf)
    IN  [i \in 1..Len(d) |-> d[i].buf]

IsSuffix(s, t) == \E k \in 0..Len(t) : s = SubSeq(t, k + 1, Len(t))

\* C1: under fair scheduling, a call to stop() eventually completes, whatever
\* state the live connections are in when it is called.
C1_StopCompletes == (stopPc # "idle") ~> (stopPc = "done")

\* C2: whenever stop() has completed, the registry is empty and every
\* connection registered when stop() was called has had its transport input
\* and its transport output shut down.
C2_StopShutsBoth ==
    stopPc = "done" =>
        /\ registry = {}
        /\ \A c \in atStop : conn[c].inShut /\ conn[c].outShut

\* C3: a connection that decoded a valid CLOSE frame from the peer hands
\* exactly one CLOSE frame to the transport in its whole life (a later stop()
\* included), and the transport's output is shut down after, and not before,
\* the write of that frame has resolved.
C3_OneCloseThenShutdown ==
    \A c \in Conns :
        conn[c].closeRecv =>
            /\ NumClose(conn[c].wire) = 1
            /\ conn[c].rl = "close_send" => ~conn[c].outShut
            /\ conn[c].rl # "close_send" => conn[c].outShut

C3_Witness ==
    \E c \in Conns :
        /\ conn[c].closeRecv
        /\ conn[c].outShut
        /\ conn[c].life = "destroyed"
        /\ stopPc = "done"

\* C4: from a state in which _done is true, no step decodes a further frame
\* or pushes a further payload onto the inbound queue.
C4_NoIngestAfterDone ==
    [][\A c \in Conns :
          conn[c].done =>
              /\ conn'[c].decoded = conn[c].decoded
              /\ IsSuffix(Payloads(conn'[c].inq), Payloads(conn[c].inq))]_vars

C4_Witness ==
    \E c \in Conns :
        /\ conn[c].done
        /\ conn[c].decoded > 0
        /\ conn[c].rl = "loop_done"
        /\ Payloads(conn[c].inq) # <<>>

\* C5: while a connection is in its handshake, neither loop has started: no
\* frame was decoded and the response loop is not in pop_eventually or in a
\* send; and the handshake is read once.
C5_LoopsAfterHandshake ==
    \A c \in Conns :
        /\ conn[c].rl = "hs" =>
              /\ conn[c].decoded = 0
              /\ conn[c].rs \notin {"pop", "send"}
        /\ conn[c].req # "none" => conn[c].rl # "hs"

\* C6: a request without "Upgrade: websocket" is rejected before any frame is
\* decoded and without a handler being called, and the connection is torn
\* down: it is destroyed and leaves the registry.
C6_NoUpgradeTornDown ==
    /\ [](\A c \in Conns :
            conn[c].req = "noupgrade" =>
                conn[c].decoded = 0 /\ ~conn[c].called /\ conn[c].hd = "none")
    /\ \A c \in Conns :
          (conn[c].req = "noupgrade") ~> (conn[c].life = "destroyed" /\ c \notin registry)

\* C7: a request for a subprotocol without a registered handler is rejected,
\* and the registry never holds a connection that requested one.
C7_RegistryOnlyRegistered ==
    \A c \in Conns :
        conn[c].req = "nosub" =>
            /\ conn[c].rlFail /\ conn[c].hd = "none"
            /\ c \notin registry

\* C8: after end-of-stream in the handshake the connection ends without
\* processing: no handler is called, no frame is decoded or sent, and the
\* outcome is not an error.
C8_HandshakeEofClean ==
    \A c \in Conns :
        conn[c].req = "eof" =>
            /\ conn[c].hd = "none" /\ ~conn[c].called
            /\ conn[c].decoded = 0 /\ conn[c].wire = <<>>
            /\ ~conn[c].rlFail

\* C9: without a call to stop(), a connection whose handshake failed is
\* eventually done: process() resolves, the connection is destroyed and has
\* left the registry.
C9_FailedHandshakeReclaimed ==
    \/ <>(stopPc # "idle")
    \/ \A c \in Conns :
          (conn[c].req \in HandshakeFailures)
              ~> (conn[c].life = "destroyed" /\ c \notin registry)

\* C10: after the handler of an active connection failed, the connection is
\* eventually torn down: both loops end, process() resolves and the connection
\* leaves the registry. Stated for the case the claim is about, a handler that
\* fails while the read loop is running and no read has failed; the claim also
\* has _done set on the way, the part stated here is the teardown itself.
C10_HandlerFailureTearsDown ==
    \A c \in Conns :
        (conn[c].hd = "failed" /\ ~conn[c].rlFail
                               /\ conn[c].rl \in {"read", "push", "close_send"})
            ~> (/\ conn[c].rl = "end" /\ conn[c].rs = "end"
                /\ conn[c].life = "destroyed" /\ c \notin registry)

\* C11: without a call to stop(), once the handler of an active connection
\* has returned while the read loop waits for the peer's next frame, the close
\* procedure runs and _done is eventually set, also when the peer stays
\* silent: the connection does not stay in that wait with _done unset. (A
\* read that resolves, with a frame, end-of-stream or an error, is the peer's
\* or the transport's doing and is left aside.)
C11_HandlerCompletionCloses ==
    \/ <>(stopPc # "idle")
    \/ \A c \in Conns :
          (conn[c].hd = "ok" /\ conn[c].rl = "read")
              ~> (conn[c].done \/ conn[c].rl # "read")

\* C12: once stop() has called _task_gate.close(), no task enters the gate:
\* no accept loop is started, and a connection constructed afterwards is
\* destroyed without process() having run and is not left in the registry;
\* the close of the gate has not resolved (stop() is not in its forced close
\* nor done) while the accept loop or a process() is running; and a forced
\* close is only ever started by a stop() whose gate close has resolved.
C12_ShutdownGate ==
    /\ [](stopPc \in {"forcing", "done"} =>
            /\ acceptPc \in {"none", "stopped"}
            /\ \A c \in Conns : conn[c].life # "live")
    /\ [](\A c \in Conns :
            conn[c].fc # "none" => stopPc \in {"forcing", "done"})
    /\ [][gateClosed =>
            /\ gateCount' <= gateCount
            /\ acceptPc = "none" => acceptPc' = "none"
            /\ \A c \in Conns :
                  conn[c].life = "unborn" /\ conn'[c].life # "unborn" =>
                      /\ conn'[c].life = "destroyed"
                      /\ conn'[c].rl = "none" /\ conn'[c].rs = "none"
                      /\ c \notin registry']_vars

C12_Witness ==
    /\ stopPc = "done"
    /\ acceptPc = "stopped"
    /\ \E c \in Conns : conn[c].life = "destroyed" /\ conn[c].rl = "none"

\* C13: the payloads the handler pushed (numbered 1, 2, ... in push order)
\* leave in that order: at every moment the payloads of the data frames on
\* the wire, followed by the payloads still in _output_buffer, are the
\* pushed payloads in push order, each once; every such frame is a BINARY
\* frame handed to the transport whole.
C13_OutboundOrder ==
    \A c \in Conns :
        /\ WirePayloads(conn[c].wire) \o Payloads(conn[c].outq)
               = [i \in 1..conn[c].pushes |-> i]
        /\ \A i \in 1..Len(conn[c].wire) :
              conn[c].wire[i].buf # EmptyBuf => conn[c].wire[i].op = "BINARY"

C13_Witness ==
    \E c \in Conns :
        /\ conn[c].pushes = MaxPush
        /\ WirePayloads(conn[c].wire) = [i \in 1..MaxPush |-> i]

\* a failure has occurred on the connection: its read loop (the handshake, a
\* read, the write of the CLOSE frame), its handler or its response loop (a
\* write or flush) resolved with an exception
Failed(r) == r.rlFail \/ r.rsFail \/ r.hd = "failed"

\* C14: a failure on one connection stays on that connection: the step in
\* which it occurs changes neither the accept loop, nor listen/stop, nor any
\* other connection, and process() of the failed connection then resolves
\* (the connection is destroyed and has left the registry).
C14_FailuresContained ==
    /\ [][\A c \in Conns :
            ~Failed(conn[c]) /\ Failed(conn'[c]) =>
                /\ acceptPc' = acceptPc /\ listening' = listening
                /\ stopPc' = stopPc
                /\ \A d \in Conns \ {c} : conn'[d] = conn[d]]_vars
    /\ \A c \in Conns :
          Failed(conn[c]) ~> (conn[c].life = "destroyed" /\ c \notin registry)

\* C15: _done is monotonic: no step of any operation takes a connection
\* from _done = true to _done = false.
C15_DoneMonotonic ==
    [][\A c \in Conns : conn[c].done => conn'[c].done]_vars

C15_Witness ==
    \E c \in Conns :
        /\ conn[c].done
        /\ conn[c].rl = "end" /\ conn[c].rs = "end"
        /\ conn[c].life = "destroyed"
        /\ stopPc = "done"

\* the payload lengths the claim about the header names
ClaimLengths == {0, 1, 125, 126, 65535, 65536}

\* C16: for every opcode in {CONTINUATION, TEXT, BINARY} and every payload
\* length L in {0, 1, 125, 126, 65535, 65536} the header of send_data has
\* byte 0 = 0x80 | opcode and the mask bit 0; it has 2 bytes with byte 1 = L
\* when L <= 125, 4 bytes with byte 1 = 126 and L in 16 bits big-endian when
\* 126 <= L <= 65535, 10 bytes with byte 1 = 127 and L in 64 bits big-endian
\* when L > 65535; and a receiver reads the opcode and L back from it.
C16_HeaderEncoding ==
    hdr.stage \in {"sent", "received"} /\ hdr.opcode \in DataOpcodes
                                       /\ hdr.size \in ClaimLengths =>
        LET h == hdr.bytes
            L == hdr.size
        IN  /\ h[1] \div 128 = 1
            /\ (h[1] \div 16) % 8 = 0
            /\ h[1] % 16 = OpcodeValue(hdr.opcode)
            /\ h[2] \div 128 = 0
            /\ L <= 125 => Len(h) = 2 /\ h[2] = L
            /\ 126 <= L /\ L <= 65535 =>
                  /\ Len(h) = 4 /\ h[2] = 126
                  /\ h[3] = L \div 256 /\ h[4] = L % 256
            /\ L > 65535 =>
                  /\ Len(h) = 10 /\ h[2] = 127
                  /\ \A i \in 3..6 : h[i] = 0
                  /\ h[7] = (L \div 16777216) % 256
                  /\ h[8] = (L \div 65536) % 256
                  /\ h[9] = (L \div 256) % 256
                  /\ h[10] = L % 256
            /\ hdr.stage = "received" =>
                  /\ hdr.parsed.opcode = OpcodeValue(hdr.opcode)
                  /\ hdr.parsed.size = L
                  /\ hdr.parsed.mask = 0
                  /\ hdr.parsed.fin = 1

C16_Witness ==
    /\ hdr.stage = "received"
    /\ hdr.opcode = "TEXT"
    /\ hdr.size = 65536
    /\ Len(hdr.bytes) = 10

\* C17: the step in which read_one decodes a valid frame whose opcode is
\* none of the six known ones ignores the frame: no frame is handed to the
\* transport, _done, both queues and the transport are as before, and the
\* read loop is in the consume of the next frame.
C17_UnknownOpcodeIgnored ==
    [][\A c \in Conns :
          /\ Live(c) /\ conn[c].rl = "read"
          /\ "RESERVED" \in ReadResults(conn[c])
          /\ conn'[c] = read_one(conn[c], "RESERVED")
          => /\ conn'[c].wire = conn[c].wire
             /\ conn'[c].done = conn[c].done
             /\ conn'[c].inq = conn[c].inq /\ conn'[c].outq = conn[c].outq
             /\ conn'[c].outShut = conn[c].outShut
             /\ conn'[c].rl = "read"]_vars

\* C18: the step in which read_one sees the parser at end-of-stream (not
\* valid, eof) runs close(false): it hands no frame to the transport, sets
\* _done, closes both queues and shuts the transport's output down.
C18_EofClosesSilently ==
    [][\A c \in Conns :
          /\ Live(c) /\ conn[c].rl = "read"
          /\ conn'[c] = read_one(conn[c], "eof")
          => /\ conn'[c].wire = conn[c].wire
             /\ conn'[c].done
             /\ conn'[c].inq = QueueClose(conn[c].inq)
             /\ conn'[c].outq = QueueClose(conn[c].outq)
             /\ conn'[c].outShut]_vars

C18_Witness ==
    \E c \in Conns :
        /\ conn[c].req = "ok"
        /\ conn[c].decoded > 0
        /\ conn[c].done /\ conn[c].outShut
        /\ NumClose(conn[c].wire) = 0

\* C19: when the write and flush of close(true)'s CLOSE frame resolve, with
\* success or with a failure, close() sets _done, closes both queues and
\* shuts the transport's output down, and the read loop's do_until ends; the
\* output is never shut down before the queues were closed and _done set.
C19_CloseSendFailureTolerated ==
    /\ [][\A c \in Conns :
            /\ Live(c) /\ conn[c].rl = "close_send"
            /\ \E ok \in BOOLEAN : conn'[c] = close_sent(conn[c], ok)
            => /\ conn'[c].done
               /\ conn'[c].inq = QueueClose(conn[c].inq)
               /\ conn'[c].outq = QueueClose(conn[c].outq)
               /\ ~conn[c].outShut /\ conn'[c].outShut
               /\ conn'[c].rl = "loop_done"]_vars
    /\ [](\A c \in Conns : conn[c].outShut => conn[c].done)

C19_Witness ==
    \E c \in Conns :
        /\ conn[c].rl = "loop_done" /\ conn[c].rlFail
        /\ NumClose(conn[c].wire) = 1
        /\ conn[c].done /\ conn[c].outShut

\* C20: once a CLOSE frame was handed to the transport, or the transport's
\* output was shut down, or _write_buf was closed, no step hands a further
\* frame to the transport. Stated for the frames the code writes by itself,
\* a CLOSE frame or a data frame with a payload of the handler; the
\* zero-length buffer that marks the end of a closed queue is left aside.
C20_NothingWrittenAfterClose ==
    [][\A c \in Conns :
          \/ NumClose(conn[c].wire) > 0
          \/ conn[c].outShut
          \/ conn[c].wbClosed
          => /\ WirePayloads(conn'[c].wire) = WirePayloads(conn[c].wire)
             /\ NumClose(conn'[c].wire) = NumClose(conn[c].wire)]_vars

====
